---- MODULE Spec2Model ----
(***************************************************************************)
(* visualizador.py: a Streamlit script that downloads a spreadsheet,       *)
(* cleans it into the inventory table (load_and_process_data) and renders  *)
(* filters, tables and charts from it.  The script is rerun from the top   *)
(* on every interaction.                                                   *)
(*                                                                         *)
(* Text is a sequence of one-character strings; a spreadsheet cell is a    *)
(* record [k, s, m, e]: k = "blank" (NaN), k = "text" with characters s,   *)
(* k = "num" with decimal value m / 10^e, k = "inf" (a float infinity).    *)
(***************************************************************************)
EXTENDS Integers, Sequences, FiniteSets, TLC

(* ------------------------------ bounds --------------------------------- *)
\* data rows of a spreadsheet whose cells vary in kind (blank, text, number)
MaxRowsLoad == 2
\* data rows of a spreadsheet whose rows vary in product, brand and location
MaxRowsView == 3
\* data rows of a spreadsheet with one row per distinct (product, brand) pair
MaxPairs == 11

(* ------------------------------- text ---------------------------------- *)
LowerCase == <<"a","b","c","d","e","f","g","h","i","j","k","l","m",
               "n","o","p","q","r","s","t","u","v","w","x","y","z">>
UpperCase == <<"A","B","C","D","E","F","G","H","I","J","K","L","M",
               "N","O","P","Q","R","S","T","U","V","W","X","Y","Z">>
Digits == <<"0","1","2","3","4","5","6","7","8","9">>
\* the characters of the model, in code point order
Alphabet == <<" ","#","-",".","/">> \o Digits \o <<"<",">">> \o UpperCase \o LowerCase

Ord(c) == CHOOSE i \in 1..Len(Alphabet) : Alphabet[i] = c

IsLower(c) == \E i \in 1..Len(LowerCase) : LowerCase[i] = c
IsDigit(c) == \E i \in 1..Len(Digits) : Digits[i] = c
DigitVal(c) == (CHOOSE i \in 1..Len(Digits) : Digits[i] = c) - 1

\* str.upper() on one character
UpperChar(c) ==
  IF IsLower(c) THEN UpperCase[CHOOSE i \in 1..Len(LowerCase) : LowerCase[i] = c] ELSE c
\* str.lower() on one character
LowerChar(c) ==
  IF \E i \in 1..Len(UpperCase) : UpperCase[i] = c
  THEN LowerCase[CHOOSE i \in 1..Len(UpperCase) : UpperCase[i] = c] ELSE c

\* .str.upper()
StrUpper(s) == [i \in 1..Len(s) |-> UpperChar(s[i])]
StrLower(s) == [i \in 1..Len(s) |-> LowerChar(s[i])]

IsSpace(c) == c = " "

RECURSIVE LStrip(_)
LStrip(s) == IF s # <<>> /\ IsSpace(Head(s)) THEN LStrip(Tail(s)) ELSE s
RECURSIVE RStrip(_)
RStrip(s) ==
  IF s # <<>> /\ IsSpace(s[Len(s)]) THEN RStrip(SubSeq(s, 1, Len(s) - 1)) ELSE s
\* .str.strip()
StrStrip(s) == RStrip(LStrip(s))

\* s < t in Python's string order (code points, shorter prefix first)
RECURSIVE StrLess(_, _)
StrLess(s, t) ==
  IF t = <<>> THEN FALSE
  ELSE IF s = <<>> THEN TRUE
  ELSE IF Head(s) = Head(t) THEN StrLess(Tail(s), Tail(t))
  ELSE Ord(Head(s)) < Ord(Head(t))

\* k < l for group keys: tuples of strings compared field by field
RECURSIVE KeyLess(_, _)
KeyLess(k, l) ==
  IF l = <<>> THEN FALSE
  ELSE IF k = <<>> THEN TRUE
  ELSE IF Head(k) = Head(l) THEN KeyLess(Tail(k), Tail(l))
  ELSE StrLess(Head(k), Head(l))

(* ------------------------------- cells --------------------------------- *)
Blank == [k |-> "blank", s |-> <<>>, m |-> 0, e |-> 0]
Txt(s) == [k |-> "text", s |-> s, m |-> 0, e |-> 0]
Num(m, e) == [k |-> "num", s |-> <<>>, m |-> m, e |-> e]
Inf == [k |-> "inf", s |-> <<>>, m |-> 0, e |-> 0]

RECURSIVE Pow10(_)
Pow10(n) == IF n = 0 THEN 1 ELSE 10 * Pow10(n - 1)

\* the strings pandas' readers turn into NaN unless keep_default_na=False
DefaultNA ==
  { <<>>,
    <<"#","N","/","A">>, <<"#","N","/","A"," ","N","/","A">>, <<"#","N","A">>,
    <<"-","1",".","#","I","N","D">>, <<"-","1",".","#","Q","N","A","N">>,
    <<"-","N","a","N">>, <<"-","n","a","n">>,
    <<"1",".","#","I","N","D">>, <<"1",".","#","Q","N","A","N">>,
    <<"<","N","A",">">>, <<"N","/","A">>, <<"N","A">>, <<"N","U","L","L">>,
    <<"N","a","N">>, <<"N","o","n","e">>, <<"n","/","a">>, <<"n","a","n">>,
    <<"n","u","l","l">> }

\* pd.read_excel on one cell: default NA strings become NaN
ReadCell(c) == IF c.k = "text" /\ c.s \in DefaultNA THEN Blank ELSE c

\* the value of a run of digits, most significant first
RECURSIVE DigitsVal(_, _)
DigitsVal(s, acc) ==
  IF s = <<>> THEN acc ELSE DigitsVal(Tail(s), 10 * acc + DigitVal(Head(s)))

AllDigits(s) == s # <<>> /\ \A i \in 1..Len(s) : IsDigit(s[i])

\* the position of the decimal point in s, 0 when there is none
DotAt(s) ==
  IF \E i \in 1..Len(s) : s[i] = "." THEN CHOOSE i \in 1..Len(s) : s[i] = "." ELSE 0

\* an unsigned decimal literal: digits, then optionally a point and digits
ParseUnsigned(s) ==
  LET d == DotAt(s) IN
  IF d = 0
  THEN IF AllDigits(s) THEN Num(DigitsVal(s, 0), 0) ELSE Blank
  ELSE LET ip == SubSeq(s, 1, d - 1)
           fp == SubSeq(s, d + 1, Len(s))
       IN IF AllDigits(ip) /\ AllDigits(fp)
          THEN Num(DigitsVal(ip \o fp, 0), Len(fp)) ELSE Blank

InfWords == { <<"i","n","f">>, <<"i","n","f","i","n","i","t","y">> }

\* pd.to_numeric(errors='coerce') on one cell: a number, an infinity or NaN
ToNumeric(c) ==
  IF c.k # "text" THEN c
  ELSE LET neg == c.s # <<>> /\ Head(c.s) = "-"
           body == IF c.s # <<>> /\ Head(c.s) \in {"-", "+"} THEN Tail(c.s) ELSE c.s
           u == ParseUnsigned(body)
       IN IF StrLower(body) \in InfWords THEN Inf
          ELSE IF u.k = "num" /\ neg THEN Num(-u.m, u.e)
          ELSE u

\* .fillna(0)
FillNA0(c) == IF c.k = "blank" THEN Num(0, 0) ELSE c

\* .astype(int) on one finite float: truncation toward zero
AsIntRound(c) == (2 * c.m + Pow10(c.e)) \div (2 * Pow10(c.e))
AsInt(c) == IF c.m >= 0 THEN c.m \div Pow10(c.e) ELSE -((-c.m) \div Pow10(c.e))

(* ------------------------ load_and_process_data ------------------------ *)
expected_excel_headers == <<"DESCRIPCION", "CAJAS APROX", "MARCA", "UBICACION", "UNIDADES">>

column_mapping ==
  [h \in {"DESCRIPCION", "CAJAS APROX", "MARCA", "UBICACION", "UNIDADES"} |->
     CASE h = "DESCRIPCION" -> "Producto"
       [] h = "CAJAS APROX" -> "Cajas disponibles"
       [] h = "MARCA" -> "Marca"
       [] h = "UBICACION" -> "Ubicacion"
       [] h = "UNIDADES" -> "Unidades"]

required_final_cols == <<"Producto", "Cajas disponibles", "Marca", "Ubicacion", "Unidades">>

\* df.rename(columns=column_mapping) on the column labels
Renamed(cols) ==
  [i \in 1..Len(cols) |->
     IF cols[i] \in DOMAIN column_mapping THEN column_mapping[cols[i]] ELSE cols[i]]

\* [col for col in required_final_cols if col not in df.columns]
MissingCols(cols) ==
  SelectSeq(required_final_cols, LAMBDA c : \A i \in 1..Len(cols) : cols[i] # c)

\* pd.read_excel(..., header=None): every sheet row is a data row, labelled 0, 1, ...
ReadExcel(content) ==
  [i \in 1..Len(content.rows) |->
     [j \in 1..content.ncols |-> ReadCell(content.rows[i][j])]]

\* one row of df_raw.iloc[1:] under the renamed column labels; "index" is the
\* row's pandas label, which every later step keeps
NamedRow(raw, i, cols) ==
  [n \in {cols[j] : j \in 1..Len(cols)} \cup {"index"} |->
     IF n = "index" THEN i - 1 ELSE raw[i][CHOOSE j \in 1..Len(cols) : cols[j] = n]]

\* str(x) of a non-negative integer
RECURSIVE NatToStr(_)
NatToStr(n) == IF n < 10 THEN <<Digits[n + 1]>> ELSE NatToStr(n \div 10) \o <<Digits[(n % 10) + 1]>>

\* the e fraction digits of m, zero padded on the left
RECURSIVE FracToStr(_, _)
FracToStr(m, e) ==
  IF e = 0 THEN <<>> ELSE FracToStr(m \div 10, e - 1) \o <<Digits[(m % 10) + 1]>>

\* str(x) of a spreadsheet number
NumToStr(c) ==
  LET a == IF c.m < 0 THEN -c.m ELSE c.m
      sign == IF c.m < 0 THEN <<"-">> ELSE <<>>
  IN sign \o NatToStr(a \div Pow10(c.e))
          \o (IF c.e = 0 THEN <<>> ELSE <<".">> \o FracToStr(a % Pow10(c.e), c.e))

\* .astype(str) on one cell.  Up to pandas 2 a NaN becomes the text 'nan'; from
\* pandas 3 (str dtype) a NaN stays missing: keepsNA tells which library runs.
AsTypeStr(c, keepsNA) ==
  CASE c.k = "text" -> c
    [] c.k = "num" -> Txt(NumToStr(c))
    [] c.k = "inf" -> Txt(<<"i","n","f">>)
    [] c.k = "blank" -> IF keepsNA THEN Blank ELSE Txt(<<"n","a","n">>)

\* .astype(str).str.strip().str.upper() on one cell; a missing value stays missing
NormalizeOnlyStrip(c, keepsNA) ==
  LET t == AsTypeStr(c, keepsNA) IN IF t.k = "blank" THEN t ELSE Txt(StrStrip(t.s))
Normalize(c, keepsNA) ==
  LET t == AsTypeStr(c, keepsNA) IN
  IF t.k = "blank" THEN t ELSE Txt(StrUpper(StrStrip(t.s)))

\* lines 64-66: the three text columns are normalized
Cleaned(r, keepsNA) ==
  [r EXCEPT !["Producto"] = Normalize(r["Producto"], keepsNA),
            !["Marca"] = Normalize(r["Marca"], keepsNA),
            !["Ubicacion"] = Normalize(r["Ubicacion"], keepsNA)]

\* df.dropna(subset=['Producto', 'Marca', 'Ubicacion', 'Cajas disponibles'])
DropNASubset == {"Producto", "Marca", "Ubicacion", "Cajas disponibles"}
DropNA(t) == SelectSeq(t, LAMBDA r : \A c \in DropNASubset : r[c].k # "blank")

\* pd.to_numeric(col, errors='coerce').fillna(0) on one cell
Coerced(c) == FillNA0(ToNumeric(c))

\* .astype(int) raises on a column holding an infinity
CastRaises(t) ==
  \E i \in 1..Len(t) : Coerced(t[i]["Cajas disponibles"]).k = "inf"
                       \/ Coerced(t[i]["Unidades"]).k = "inf"

\* lines 73-74 on one row, and the text columns as plain strings
Typed(r) ==
  [r EXCEPT !["Producto"] = r["Producto"].s,
            !["Marca"] = r["Marca"].s,
            !["Ubicacion"] = r["Ubicacion"].s,
            !["Cajas disponibles"] = AsInt(Coerced(r["Cajas disponibles"])),
            !["Unidades"] = AsInt(Coerced(r["Unidades"]))]

NoTable == <<>>

\* line 32: the sheet has exactly the expected number of columns
ColumnCountAtLeast(n) == n >= Len(expected_excel_headers)
ColumnCountOk(n) == n = Len(expected_excel_headers)

\* what the run of load_and_process_data ends in once the response is in hand:
\* outcome "ok" with the returned table, or the message shown before st.stop()
LoadResult(outcome, table, cols) == [outcome |-> outcome, df |-> table, cols |-> cols]

Load(content, keepsNA) ==
  IF ~content.valid THEN LoadResult("unexpected", NoTable, <<>>)
  ELSE
  LET df_raw == ReadExcel(content)
      ncols == IF df_raw = <<>> THEN 0 ELSE content.ncols
  IN
  IF ~ColumnCountOk(ncols)
  THEN LoadResult("schema", NoTable, <<ncols, Len(expected_excel_headers)>>)
  ELSE
  LET cols == Renamed(expected_excel_headers)
      df1 == [i \in 1..(Len(df_raw) - 1) |-> NamedRow(df_raw, i + 1, cols)]
  IN
  IF MissingCols(cols) # <<>> THEN LoadResult("missing", NoTable, <<>>)
  ELSE
  LET df2 == [i \in 1..Len(df1) |-> Cleaned(df1[i], keepsNA)]
      df3 == DropNA(df2)
  IN
  IF df3 = <<>> THEN LoadResult("empty", NoTable, <<>>)
  ELSE IF CastRaises(df3) THEN LoadResult("unexpected", NoTable, <<>>)
  ELSE LoadResult("ok", [i \in 1..Len(df3) |-> Typed(df3[i])], <<>>)

(* ---------------------------- table helpers ---------------------------- *)
TextCols == {"Producto", "Marca", "Ubicacion"}

\* the values of one column, in row order
Column(t, col) == [i \in 1..Len(t) |-> t[i][col]]

RECURSIVE SumSeq(_)
SumSeq(s) == IF s = <<>> THEN 0 ELSE Head(s) + SumSeq(Tail(s))

\* a finite set of keys as the ascending sequence groupby(sort=True) yields
RECURSIVE SortedKeys(_)
SortedKeys(S) ==
  IF S = {} THEN <<>>
  ELSE LET k == CHOOSE x \in S : \A y \in S \ {x} : KeyLess(x, y)
       IN <<k>> \o SortedKeys(S \ {k})

\* t.groupby(keys)[vals].sum().reset_index(): one row per distinct key, keys ascending
GroupSum(t, keys, vals) ==
  LET KeyOf(r) == [j \in 1..Len(keys) |-> r[keys[j]]]
      ks == SortedKeys({KeyOf(t[i]) : i \in 1..Len(t)})
      members(k) == SelectSeq(t, LAMBDA r : KeyOf(r) = k)
  IN [g \in 1..Len(ks) |->
        [n \in {keys[j] : j \in 1..Len(keys)} \cup vals |->
           IF n \in vals THEN SumSeq(Column(members(ks[g]), n))
           ELSE ks[g][CHOOSE j \in 1..Len(keys) : keys[j] = n]]]

\* a <= b in the order of column col
LeqVal(a, b, col) == IF col \in TextCols THEN ~StrLess(b, a) ELSE a <= b

\* t.sort_values(col, ascending=asc).  The default sort is numpy's introsort,
\* which is an insertion sort on the up to 16 rows of the model: equal keys
\* keep their order, in either direction.
RECURSIVE SortValues(_, _, _)
SortValues(t, col, asc) ==
  IF t = <<>> THEN <<>>
  ELSE LET init == SortValues(SubSeq(t, 1, Len(t) - 1), col, asc)
           r == t[Len(t)]
           before(x) == IF asc THEN LeqVal(x[col], r[col], col) ELSE LeqVal(r[col], x[col], col)
           n == Cardinality({i \in 1..Len(init) : before(init[i])})
       IN SubSeq(init, 1, n) \o <<r>> \o SubSeq(init, n + 1, Len(init))

\* t.head(n)
Head_n(t, n) == SubSeq(t, 1, IF Len(t) < n THEN Len(t) ELSE n)

\* list[::-1]
RECURSIVE Reversed(_)
Reversed(s) == IF s = <<>> THEN <<>> ELSE Reversed(Tail(s)) \o <<Head(s)>>

\* sorted(t[col].unique().tolist())
SortedUnique(t, col) ==
  LET ks == SortedKeys({<<t[i][col]>> : i \in 1..Len(t)})
  IN [i \in 1..Len(ks) |-> ks[i][1]]

(* ------------------------------ Inventario ----------------------------- *)
Todos == <<"T","o","d","o","s">>

\* lines 108-110
marcas_disponibles(t) ==
  <<Todos>> \o Column(SortValues(GroupSum(t, <<"Marca">>, {"Cajas disponibles"}),
                                 "Cajas disponibles", FALSE), "Marca")
\* line 116
ubicaciones_disponibles(t) == <<Todos>> \o SortedUnique(t, "Ubicacion")
\* line 121
productos_disponibles(t) == <<Todos>> \o SortedUnique(t, "Producto")

\* one filter step: t[t[col] == sel] unless sel is 'Todos'
FilterStepNoFilter(t, col, sel) == t
FilterStep(t, col, sel) ==
  IF sel # Todos THEN SelectSeq(t, LAMBDA r : r[col] = sel) ELSE t

\* lines 129-135
Filtrado(t, marca, ubicacion, producto) ==
  FilterStep(FilterStep(FilterStep(t, "Marca", marca), "Ubicacion", ubicacion),
             "Producto", producto)

\* the number of groups the bar chart keeps
TopN == 10

\* line 234
df_agrupado(f) == GroupSum(f, <<"Producto", "Marca">>, {"Cajas disponibles"})
\* line 237
top_10_productos(f) == Head_n(SortValues(df_agrupado(f), "Cajas disponibles", TRUE), TopN)
\* line 251
ordered_products_for_y_axis(f) == Reversed(Column(top_10_productos(f), "Producto"))

\* lines 219-258: the data frame given to px.bar and the category order array
\* (none for the single product chart)
BarData(f, producto) == IF producto # Todos THEN f ELSE top_10_productos(f)
BarCategoryArray(f, producto) ==
  IF producto # Todos THEN <<>> ELSE ordered_products_for_y_axis(f)

\* lines 269-278
ResumenUnsorted(f) == GroupSum(f, <<"Producto">>, {"Cajas disponibles", "Unidades"})
ResumenAscending(f) == SortValues(ResumenUnsorted(f), "Cajas disponibles", TRUE)
Resumen(f) == SortValues(ResumenUnsorted(f), "Cajas disponibles", FALSE)

\* lines 161-209: the column the pie chart of a render is grouped by
PieColumn(marca, producto) ==
  IF producto # Todos THEN "Ubicacion"
  ELSE IF marca = Todos THEN "Marca" ELSE "Producto"

\* lines 163-209: the pie charts of a render with a non-empty filtered table,
\* in the order they are drawn, each named by its column
PiesBoth(f, marca, producto) ==
  (IF GroupSum(f, <<"Ubicacion">>, {"Cajas disponibles"}) # <<>>
   THEN <<"pie_Ubicacion">> ELSE <<"warning_pie">>)
  \o (IF marca = Todos THEN <<"pie_Marca">> ELSE <<"pie_Producto">>)
Pies(f, marca, producto) ==
  (IF producto # Todos /\ f # <<>>
   THEN IF GroupSum(f, <<"Ubicacion">>, {"Cajas disponibles"}) # <<>>
        THEN <<"pie_Ubicacion">> ELSE <<"warning_pie">>
   ELSE <<>>)
  \o
  (IF producto = Todos
   THEN IF marca = Todos
        THEN IF GroupSum(f, <<"Marca">>, {"Cajas disponibles"}) # <<>>
             THEN <<"pie_Marca">> ELSE <<"warning_pie">>
        ELSE IF GroupSum(f, <<"Producto">>, {"Cajas disponibles"}) # <<>>
             THEN <<"pie_Producto">> ELSE <<"warning_pie">>
   ELSE <<>>)

\* lines 148-159: the expander or the product notice
BrandView(marca, producto) ==
  IF marca # Todos /\ producto = Todos THEN <<"expander_marca">>
  ELSE IF producto # Todos THEN <<"info_producto">>
  ELSE <<>>

\* lines 139-284: what a render shows for the filtered table f
InventarioElements(f, marca, producto) ==
  IF f = <<>> THEN <<"warning_sin_datos">>
  ELSE <<"tabla_detalle">> \o BrandView(marca, producto) \o Pies(f, marca, producto)
       \o <<"bar", "tabla_resumen", "success_dashboard">>

(* --------------------------- the spreadsheets -------------------------- *)
\* the label row a sheet of n columns starts with
LabelRow(n) == [j \in 1..n |-> Txt(<<"H">>)]

Sheet(n, rows) == [valid |-> TRUE, ncols |-> n, rows |-> <<LabelRow(n)>> \o rows]
\* a response body that is no workbook
NotExcel == [valid |-> FALSE, ncols |-> 0, rows |-> <<>>]
\* a workbook whose sheet has no row at all
EmptySheet == [valid |-> TRUE, ncols |-> 0, rows |-> <<>>]

\* all sequences of 0..n elements of S
RECURSIVE SeqsUpTo(_, _)
SeqsUpTo(S, n) ==
  IF n = 0 THEN {<<>>}
  ELSE LET shorter == SeqsUpTo(S, n - 1)
       IN shorter \cup {Append(s, x) : s \in {q \in shorter : Len(q) = n - 1}, x \in S}

\* rows that differ from a plain row in the kind of one cell
PlainRow == <<Txt(<<"a">>), Num(3, 0), Txt(<<"x">>), Txt(<<"p">>), Num(5, 0)>>
ProductCells == {Txt(<<" ","A"," ">>), Blank, Txt(<<" ">>)}
BoxCells == {Num(25, 1), Num(-19, 1), Txt(<<"N","/","A">>), Txt(<<"a","b","c">>), Blank,
             Txt(<<"i","n","f">>)}
BrandCells == {Blank}
LocationCells == {Blank}
UnitCells == {Blank, Txt(<<"a","b","c">>), Num(-1, 0)}
LoadRows ==
  {PlainRow}
  \cup {[PlainRow EXCEPT ![1] = c] : c \in ProductCells}
  \cup {[PlainRow EXCEPT ![2] = c] : c \in BoxCells}
  \cup {[PlainRow EXCEPT ![3] = c] : c \in BrandCells}
  \cup {[PlainRow EXCEPT ![4] = c] : c \in LocationCells}
  \cup {[PlainRow EXCEPT ![5] = c] : c \in UnitCells}
LoadSheets == {Sheet(5, rows) : rows \in SeqsUpTo(LoadRows, MaxRowsLoad)}

\* clean rows over two products, two brands and two locations; product b is
\* kept at location p only
ViewRows ==
  {<<Txt(<<x[1]>>), Num((IF x[2] = "x" THEN 1 ELSE 2) + (IF x[3] = "p" THEN 0 ELSE 2), 0),
     Txt(<<x[2]>>), Txt(<<x[3]>>), Num(IF x[1] = "a" THEN 10 ELSE 4, 0)>> :
     x \in {y \in {"a", "b"} \X {"x", "y"} \X {"p", "q"} : ~(y[1] = "b" /\ y[3] = "q")}}
ViewSheets == {Sheet(5, rows) : rows \in SeqsUpTo(ViewRows, MaxRowsView)}

\* n rows with n distinct (product, brand) pairs, box counts rising or falling
PairRow(i, boxes) ==
  <<Txt(<<LowerCase[(i + 1) \div 2]>>), Num(boxes, 0),
    Txt(<<IF i % 2 = 1 THEN "x" ELSE "y">>), Txt(<<"p">>), Num(1, 0)>>
PairSheets ==
  UNION {{Sheet(5, [i \in 1..n |-> PairRow(i, i)]),
          Sheet(5, [i \in 1..n |-> PairRow(i, n + 1 - i)])} : n \in (MaxPairs - 1)..MaxPairs}

\* the two rows that differ by letter case and surrounding whitespace only
AppleSheet ==
  Sheet(5, << <<Txt(<<"a","p","p","l","e">>), Txt(<<"3">>), Txt(<<"B","r","a","n","d","X">>),
                Txt(<<"A","1">>), Txt(<<"1","0">>)>>,
              <<Txt(<<" "," ","a","p","p","l","e"," ">>), Txt(<<"2">>),
                Txt(<<"b","r","a","n","d","x">>), Txt(<<"a","1">>), Txt(<<"5">>)>> >>)

\* sheets with a column too few or too many
WrongShapeSheets ==
  {Sheet(n, <<[j \in 1..n |-> Txt(<<"a">>)]>>) : n \in {4, 6}} \cup {Sheet(4, <<>>), EmptySheet}

Contents ==
  LoadSheets \cup ViewSheets \cup PairSheets \cup WrongShapeSheets \cup {AppleSheet, NotExcel}

(* --------------------------- the script's run -------------------------- *)
VARIABLES
  pc,                      \* where the run of the script is
  content,                 \* the body the URL serves
  outcome,                 \* how load_and_process_data ended, "pending" before
  cols_msg,                \* the column counts the schema error message names
  df,                      \* the module-level table, NoTable until returned
  elements,                \* the st.* elements shown so far, in order
  opcion_seleccionada,
  marca_seleccionada,
  ubicacion_seleccionada,
  producto_seleccionado,
  df_filtrado,
  pie_data,                \* the data frame of the pie chart drawn, if any
  bar_data,                \* the data frame of the bar chart drawn, if any
  categoryarray,           \* the bar chart's yaxis categoryarray
  df_resumen_producto

vars == <<pc, content, outcome, cols_msg, df, elements, opcion_seleccionada,
          marca_seleccionada, ubicacion_seleccionada, producto_seleccionado,
          df_filtrado, pie_data, bar_data, categoryarray, df_resumen_producto>>

viewVars == <<opcion_seleccionada, marca_seleccionada, ubicacion_seleccionada,
              producto_seleccionado, df_filtrado, pie_data, bar_data, categoryarray,
              df_resumen_producto>>

\* st.stop() ends the run: nothing below it executes
AfterStopFallsThrough == "nav"
AfterStop == "stopped"

StartOfRun ==
  /\ pc = "fetch"
  /\ outcome = "pending"
  /\ cols_msg = <<>>
  /\ df = NoTable
  /\ elements = <<>>
  /\ opcion_seleccionada = "Inventario"
  /\ marca_seleccionada = Todos
  /\ ubicacion_seleccionada = Todos
  /\ producto_seleccionado = Todos
  /\ df_filtrado = <<>>
  /\ pie_data = <<>>
  /\ bar_data = <<>>
  /\ categoryarray = <<>>
  /\ df_resumen_producto = <<>>

Init == content \in Contents /\ StartOfRun

\* lines 20-22 and 79-82: the GET succeeds, or raises a RequestException
Fetch ==
  /\ pc = "fetch"
  /\ \E ok \in BOOLEAN :
       IF ok
       THEN /\ pc' = "load"
            /\ elements' = Append(elements, "info_cargando")
            /\ outcome' = outcome
       ELSE /\ pc' = AfterStop
            /\ elements' = elements \o <<"info_cargando", "error_conexion", "error_detalles">>
            /\ outcome' = "connection"
  /\ UNCHANGED <<content, cols_msg, df, viewVars>>

\* the messages of each way load_and_process_data ends
LoadMessages(o) ==
  CASE o = "ok" -> <<"success_cargado">>
    [] o = "schema" -> <<"error_columnas", "error_columnas_esperadas">>
    [] o = "missing" -> <<"error_faltan", "warning_columnas", "tabla_mapeo", "tabla_columnas">>
    [] o = "empty" -> <<"warning_vacio">>
    [] o = "unexpected" -> <<"error_inesperado", "error_detalles">>

\* lines 26-89: the response is parsed, checked, cleaned and returned as df
LoadData ==
  /\ pc = "load"
  /\ \E keepsNA \in BOOLEAN :
       LET res == Load(content, keepsNA) IN
       /\ outcome' = res.outcome
       /\ cols_msg' = res.cols
       /\ df' = res.df
       /\ elements' = elements \o LoadMessages(res.outcome)
       /\ pc' = IF res.outcome = "ok" THEN "nav" ELSE AfterStop
  /\ UNCHANGED <<content, viewVars>>

\* lines 92-99 and 286-296: the radio; Ventas shows its static notice
Navigate ==
  /\ pc = "nav"
  /\ \E o \in {"Inventario", "Ventas"} :
       /\ opcion_seleccionada' = o
       /\ IF o = "Inventario"
          THEN pc' = "inventario" /\ elements' = elements
          ELSE pc' = "done" /\ elements' = elements \o <<"header_ventas", "info_ventas">>
  /\ UNCHANGED <<content, outcome, cols_msg, df, marca_seleccionada, ubicacion_seleccionada,
                 producto_seleccionado, df_filtrado, pie_data, bar_data, categoryarray,
                 df_resumen_producto>>

\* lines 100-284: the three selectboxes return an option each, then the render
Inventario ==
  /\ pc = "inventario"
  /\ \E i \in 1..Len(marcas_disponibles(df)), j \in 1..Len(ubicaciones_disponibles(df)),
        k \in 1..Len(productos_disponibles(df)) :
       LET marca == marcas_disponibles(df)[i]
           ubicacion == ubicaciones_disponibles(df)[j]
           producto == productos_disponibles(df)[k]
           f == Filtrado(df, marca, ubicacion, producto)
           shown == InventarioElements(f, marca, producto)
           haspie == \E n \in 1..Len(shown) :
                       shown[n] \in {"pie_Ubicacion", "pie_Marca", "pie_Producto"}
       IN /\ marca_seleccionada' = marca
          /\ ubicacion_seleccionada' = ubicacion
          /\ producto_seleccionado' = producto
          /\ df_filtrado' = f
          /\ elements' = elements \o <<"selectbox_marca", "selectbox_ubicacion",
                                       "selectbox_producto">> \o shown
          /\ pie_data' = IF haspie
                         THEN GroupSum(f, <<PieColumn(marca, producto)>>, {"Cajas disponibles"})
                         ELSE <<>>
          /\ bar_data' = IF f = <<>> THEN <<>> ELSE BarData(f, producto)
          /\ categoryarray' = IF f = <<>> THEN <<>> ELSE BarCategoryArray(f, producto)
          /\ df_resumen_producto' = IF f = <<>> THEN <<>> ELSE Resumen(f)
  /\ pc' = "done"
  /\ UNCHANGED <<content, outcome, cols_msg, df, opcion_seleccionada>>

\* an interaction reruns the script from its first line
Rerun ==
  /\ pc \in {"done", "stopped"}
  /\ pc' = "fetch"
  /\ outcome' = "pending"
  /\ cols_msg' = <<>>
  /\ df' = NoTable
  /\ elements' = <<>>
  /\ opcion_seleccionada' = "Inventario"
  /\ marca_seleccionada' = Todos
  /\ ubicacion_seleccionada' = Todos
  /\ producto_seleccionado' = Todos
  /\ df_filtrado' = <<>>
  /\ pie_data' = <<>>
  /\ bar_data' = <<>>
  /\ categoryarray' = <<>>
  /\ df_resumen_producto' = <<>>
  /\ UNCHANGED content

Next == Fetch \/ LoadData \/ Navigate \/ Inventario \/ Rerun

Spec == Init /\ [][Next]_vars

(* ------------------------------ properties ----------------------------- *)
\* the number of columns pd.read_excel finds in the sheet
ParsedCols == IF content.rows = <<>> THEN 0 ELSE content.ncols
\* load_and_process_data got a response and has ended
LoadEnded == outcome \notin {"pending", "connection"}
\* the sheet is a workbook of five columns
FiveColumns == content.valid /\ ParsedCols = 5
\* the sheet row a row of df was read from
RawOf(r) == content.rows[r["index"] + 1]
Shown(e) == \E i \in 1..Len(elements) : elements[i] = e
PieNames == {"pie_Ubicacion", "pie_Marca", "pie_Producto"}
ViewNames ==
  PieNames \cup {"selectbox_marca", "selectbox_ubicacion", "selectbox_producto",
                 "warning_sin_datos", "tabla_detalle", "expander_marca", "info_producto",
                 "warning_pie", "bar", "tabla_resumen", "success_dashboard",
                 "header_ventas", "info_ventas"}
ViewShown == \E i \in 1..Len(elements) : elements[i] \in ViewNames
NoViewData ==
  df_filtrado = <<>> /\ pie_data = <<>> /\ bar_data = <<>> /\ categoryarray = <<>>
  /\ df_resumen_producto = <<>>
InventarioDone == pc = "done" /\ opcion_seleccionada = "Inventario"

\* C1: a parsed sheet whose column count is not 5 ends load_and_process_data in
\* the schema error, whose message names the actual and the expected count, and
\* no table is returned.
C1_WrongColumnCountIsSchemaError ==
  (LoadEnded /\ content.valid /\ ParsedCols # 5) =>
    /\ outcome = "schema"
    /\ cols_msg = <<ParsedCols, 5>>
    /\ Shown("error_columnas")
    /\ df = NoTable
    /\ pc = "stopped"
C1_Witness == outcome = "schema" /\ content.ncols = 6 /\ Len(content.rows) = 2

\* C2: view steps run only after load_and_process_data returned a table that
\* passed every ingestion step; after any failed ingestion the run is stopped
\* and nothing of the view (selector, table, chart, Ventas notice) exists.
C2_ViewOnlyAfterIngestion ==
  /\ (pc \in {"nav", "inventario", "done"} \/ ViewShown \/ ~NoViewData) =>
       /\ outcome = "ok"
       /\ df # NoTable
       /\ \E k \in BOOLEAN : Load(content, k) = LoadResult("ok", df, <<>>)
       /\ SubSeq(elements, 1, 2) = <<"info_cargando", "success_cargado">>
  /\ outcome \notin {"pending", "ok"} =>
       /\ pc = "stopped"
       /\ df = NoTable
       /\ ~ViewShown
       /\ NoViewData
C2_Witness == pc = "stopped" /\ outcome = "empty" /\ Len(content.rows) = 3

\* C3: when every data row of a five-column sheet has a missing Product cell
\* (its other cells filled), load_and_process_data ends in the empty-data
\* warning and returns no table; and no row of a returned table has an empty
\* or missing Product, Brand or Location.
C3_MissingProductRowsAreDropped ==
  /\ (LoadEnded /\ FiveColumns /\ Len(content.rows) >= 2
      /\ \A i \in 2..Len(content.rows) :
           /\ content.rows[i][1] = Blank
           /\ \A j \in 2..5 : content.rows[i][j].k # "blank") =>
       (outcome = "empty" /\ df = NoTable /\ Shown("warning_vacio"))
  /\ outcome = "ok" =>
       \A i \in 1..Len(df) :
         /\ \A c \in TextCols : df[i][c] # <<>>
         /\ \A j \in {1, 3, 4} : ReadCell(RawOf(df[i])[j]).k # "blank"

\* C4 as claimed: every row of a returned table has non-negative integer
\* 'Cajas disponibles' and 'Unidades'.
C4_NonNegativeIntegers ==
  outcome = "ok" =>
    \A i \in 1..Len(df) : df[i]["Cajas disponibles"] \in Nat /\ df[i]["Unidades"] \in Nat

\* the integer a raw cell stands for: 0 for a blank or non-numeric cell, the
\* number cut at the decimal point otherwise
IsTruncationOf(v, raw) ==
  LET n == ToNumeric(ReadCell(raw)) IN
  IF n.k = "blank" THEN v = 0
  ELSE /\ n.k = "num"
       /\ IF n.m >= 0
          THEN v >= 0 /\ v * Pow10(n.e) <= n.m /\ n.m < (v + 1) * Pow10(n.e)
          ELSE v <= 0 /\ v * Pow10(n.e) >= n.m /\ n.m > (v - 1) * Pow10(n.e)

\* C4 amended: every row of a returned table has integer 'Cajas disponibles'
\* and 'Unidades': 0 for a blank or non-numeric cell, the raw number truncated
\* toward zero otherwise; so a value is negative exactly when the raw number
\* is -1 or less.
C4_IntegersTruncated ==
  outcome = "ok" =>
    \A i \in 1..Len(df) :
      /\ df[i]["Cajas disponibles"] \in Int
      /\ df[i]["Unidades"] \in Int
      /\ IsTruncationOf(df[i]["Cajas disponibles"], RawOf(df[i])[2])
      /\ IsTruncationOf(df[i]["Unidades"], RawOf(df[i])[5])
C4_Witness ==
  /\ outcome = "ok"
  /\ \E i \in 1..Len(df) : df[i]["Cajas disponibles"] = -1 /\ RawOf(df[i])[2] = Num(-19, 1)
  /\ \E i \in 1..Len(df) : df[i]["Cajas disponibles"] = 2 /\ RawOf(df[i])[2] = Num(25, 1)

\* C5: a data row whose raw box cell is non-empty text that is no number is
\* kept with 'Cajas disponibles' = 0; a blank or unparseable Units cell gives
\* 'Unidades' = 0; and the numeric coercion never ends in an error.
C5_UnparseableCountsBecomeZero ==
  (LoadEnded /\ FiveColumns) =>
    /\ \A i \in 2..Len(content.rows) :
         LET c == content.rows[i][2] IN
         (/\ c.k = "text" /\ c.s # <<>> /\ ToNumeric(c).k = "blank"
          /\ \A j \in {1, 3, 4} : ReadCell(content.rows[i][j]).k = "text") =>
           /\ outcome = "ok"
           /\ \E n \in 1..Len(df) :
                df[n]["index"] = i - 1 /\ df[n]["Cajas disponibles"] = 0
    /\ outcome = "ok" =>
         \A n \in 1..Len(df) :
           ToNumeric(RawOf(df[n])[5]).k = "blank" => df[n]["Unidades"] = 0
    /\ outcome # "unexpected"

\* a row matches every selection field that is not 'Todos'
Matches(r) ==
  /\ marca_seleccionada = Todos \/ r["Marca"] = marca_seleccionada
  /\ ubicacion_seleccionada = Todos \/ r["Ubicacion"] = ubicacion_seleccionada
  /\ producto_seleccionado = Todos \/ r["Producto"] = producto_seleccionado
\* the selection made for a column
SelectionOf(col) ==
  CASE col = "Marca" -> marca_seleccionada
    [] col = "Ubicacion" -> ubicacion_seleccionada
    [] col = "Producto" -> producto_seleccionado
\* the three filter steps applied in the order c1, c2, c3
FilteredInOrder(c1, c2, c3) ==
  FilterStep(FilterStep(FilterStep(df, c1, SelectionOf(c1)), c2, SelectionOf(c2)),
             c3, SelectionOf(c3))

\* C6: the filtered table is exactly the rows of df, in order, that equal every
\* selection field that is not 'Todos'; with three wildcards it is df; every
\* order of the three filter steps gives it; and df is still the table that
\* load_and_process_data returned.
C6_FilterIsConjunctiveSelection ==
  InventarioDone =>
    /\ df_filtrado = SelectSeq(df, Matches)
    /\ (marca_seleccionada = Todos /\ ubicacion_seleccionada = Todos
        /\ producto_seleccionado = Todos) => df_filtrado = df
    /\ \A c1, c2, c3 \in TextCols :
         {c1, c2, c3} = TextCols => FilteredInOrder(c1, c2, c3) = df_filtrado
    /\ \E k \in BOOLEAN : Load(content, k) = LoadResult("ok", df, <<>>)
C6_Witness ==
  /\ InventarioDone
  /\ marca_seleccionada # Todos /\ ubicacion_seleccionada # Todos
  /\ producto_seleccionado = Todos
  /\ df_filtrado # <<>> /\ Len(df_filtrado) < Len(df)

\* C7: for a non-empty filtered table the summary has one row per distinct
\* Product of the filtered table, its box and unit totals add up to those of
\* the filtered table, and its rows are in descending order of total boxes.
C7_SummaryConservesAndSortsDescending ==
  (InventarioDone /\ df_filtrado # <<>>) =>
    LET s == df_resumen_producto IN
    /\ {s[i]["Producto"] : i \in 1..Len(s)} =
         {df_filtrado[i]["Producto"] : i \in 1..Len(df_filtrado)}
    /\ Len(s) = Cardinality({df_filtrado[i]["Producto"] : i \in 1..Len(df_filtrado)})
    /\ SumSeq(Column(s, "Cajas disponibles")) = SumSeq(Column(df_filtrado, "Cajas disponibles"))
    /\ SumSeq(Column(s, "Unidades")) = SumSeq(Column(df_filtrado, "Unidades"))
    /\ \A i, j \in 1..Len(s) :
         i < j => s[i]["Cajas disponibles"] >= s[j]["Cajas disponibles"]
C7_Witness ==
  /\ InventarioDone
  /\ Len(df_filtrado) = 3
  /\ marca_seleccionada # Todos
  /\ Len(df_resumen_producto) = 2
  /\ df_resumen_producto[1]["Producto"] = <<"B">>
  /\ df_resumen_producto[1]["Cajas disponibles"] > df_resumen_producto[2]["Cajas disponibles"]

\* the (Product, Brand) groups of the filtered table with their box totals
Groups == df_agrupado(df_filtrado)

\* C8: with the product wildcard and more than 10 distinct (Product, Brand)
\* pairs in the filtered table, the bar chart holds exactly the 10 pairs with
\* the largest box totals, and its category array lists them from the smallest
\* total to the largest.
C8_BarShowsTenLargestAscending ==
  (InventarioDone /\ producto_seleccionado = Todos /\ Len(Groups) > TopN) =>
    /\ Len(bar_data) = TopN
    /\ \A i \in 1..Len(bar_data) : \E g \in 1..Len(Groups) : Groups[g] = bar_data[i]
    /\ \A g \in 1..Len(Groups) :
         (\A i \in 1..Len(bar_data) : bar_data[i] # Groups[g]) =>
           \A i \in 1..Len(bar_data) :
             Groups[g]["Cajas disponibles"] <= bar_data[i]["Cajas disponibles"]
    /\ categoryarray =
         Column(SortValues(bar_data, "Cajas disponibles", TRUE), "Producto")

\* C9: the text columns of a returned table are trimmed and upper-cased, so
\* rows that differ by letter case or surrounding blanks only fall in one
\* group: the rows ("apple","3","BrandX","A1","10") and
\* ("  apple ","2","brandx","a1","5") give the single summary row APPLE with
\* 5 boxes and 15 units.
C9_CaseAndBlanksAreNormalized ==
  /\ outcome = "ok" =>
       \A i \in 1..Len(df) : \A c \in TextCols :
         LET v == df[i][c] IN
         /\ \A n \in 1..Len(v) : ~IsLower(v[n])
         /\ v # <<>> => ~IsSpace(v[1]) /\ ~IsSpace(v[Len(v)])
  /\ (content = AppleSheet /\ outcome = "ok") =>
       /\ Len(df) = 2
       /\ \A i \in 1..2 :
            /\ df[i]["Producto"] = <<"A","P","P","L","E">>
            /\ df[i]["Marca"] = <<"B","R","A","N","D","X">>
            /\ df[i]["Ubicacion"] = <<"A","1">>
  /\ (content = AppleSheet /\ InventarioDone /\ df_filtrado = df) =>
       df_resumen_producto =
         << [n \in {"Producto", "Cajas disponibles", "Unidades"} |->
               CASE n = "Producto" -> <<"A","P","P","L","E">>
                 [] n = "Cajas disponibles" -> 5
                 [] n = "Unidades" -> 15] >>
C9_Witness ==
  /\ content = AppleSheet /\ InventarioDone
  /\ marca_seleccionada = Todos /\ ubicacion_seleccionada = Todos
  /\ producto_seleccionado = Todos
  /\ Len(df_resumen_producto) = 1

\* the pie charts drawn in this run
PiesDrawn == SelectSeq(elements, LAMBDA e : e \in PieNames)
\* the rows of df of the selected brand (and location, when one is selected)
RowsOfBrand ==
  SelectSeq(df, LAMBDA r :
    /\ r["Marca"] = marca_seleccionada
    /\ ubicacion_seleccionada = Todos \/ r["Ubicacion"] = ubicacion_seleccionada)

\* C10: an Inventario render with a non-empty filtered table draws exactly one
\* pie chart: by Location for a specific product, by Brand for product and
\* brand wildcards, by Product over the rows of the selected brand for a
\* product wildcard with a specific brand.  With an empty filtered table it
\* shows the 'no data' warning and no table or chart.
C10_ExactlyOnePieBySelection ==
  InventarioDone =>
    IF df_filtrado = <<>>
    THEN /\ SubSeq(elements, 6, Len(elements)) = <<"warning_sin_datos">>
         /\ pie_data = <<>> /\ bar_data = <<>> /\ df_resumen_producto = <<>>
    ELSE /\ Len(PiesDrawn) = 1
         /\ producto_seleccionado # Todos =>
              /\ PiesDrawn = <<"pie_Ubicacion">>
              /\ pie_data = GroupSum(df_filtrado, <<"Ubicacion">>, {"Cajas disponibles"})
         /\ (producto_seleccionado = Todos /\ marca_seleccionada = Todos) =>
              /\ PiesDrawn = <<"pie_Marca">>
              /\ pie_data = GroupSum(df_filtrado, <<"Marca">>, {"Cajas disponibles"})
         /\ (producto_seleccionado = Todos /\ marca_seleccionada # Todos) =>
              /\ PiesDrawn = <<"pie_Producto">>
              /\ pie_data = GroupSum(RowsOfBrand, <<"Producto">>, {"Cajas disponibles"})
C10_Witness ==
  /\ InventarioDone
  /\ producto_seleccionado = Todos /\ marca_seleccionada # Todos
  /\ Len(df_filtrado) < Len(df)
  /\ Len(pie_data) = 2

====
